---------------------------- MODULE Spec2Model ----------------------------
(***************************************************************************)
(* Model of the Honeycomb exporter Lambda                                  *)
(* (src/lambda_/functions/honeycomb_exporter/index.py): the run of         *)
(* event_handler over one Kinesis event, and the pure helpers              *)
(* _convert_cw_log_to_otel, _parse_attributes and _datetime_to_nano.       *)
(*                                                                         *)
(* Python values are modelled as tagged records [t |-> type, v |-> value]: *)
(*   str   v is a TLA+ string          int   v is an integer               *)
(*   bool  v is a BOOLEAN              float v is the repr of the float    *)
(*   null  v is "None"                 list  v is a sequence of values     *)
(*   dict  v is the sequence of <<key, value>> pairs in insertion order    *)
(*   bigint v is [neg, hi, lo], the integer (+/-)(hi * 10^9 + lo)          *)
(* A call that may raise returns [ok |-> FALSE, exc |-> name] or           *)
(* [ok |-> TRUE, val |-> result].                                          *)
(***************************************************************************)
EXTENDS Integers, Sequences, FiniteSets, TLC

VARIABLES
    event,                  \* the Records of the Kinesis event of this run
    pc,                     \* position of event_handler
    i,                      \* index of the loop in progress
    j,                      \* index of the inner loop over logEvents
    unzipped_records,
    undecodable_messages,
    decoded_messages,
    otel_tracing_messages,
    not_tracing_messages,
    resource_spans,
    traces,
    posts,                  \* the bodies POSTed to HONEYCOMB_ENDPOINT so far
    response,               \* status_code of the response, 0 before the POST
    raised,                 \* the exception that left event_handler, "" if none
    call,                   \* a call of one helper: [fn, arg]       
    result,                 \* its result, [ok |-> FALSE, exc |-> "pending"] before
    previous,               \* event and request of the last invocation with one
    other,                  \* the invocation in a second execution environment
    execution_environment_cache,    \* lambda_cache._execution_environment_cache
    invocation_cache,       \* lambda_cache._invocation_cache
    context,                \* the context of the thumbnail invocation in progress
    tpc,                    \* position of the thumbnail function's event_handler
    root_spans              \* the attributes of the root spans started so far

vars == <<event, pc, i, j, unzipped_records, undecodable_messages,
          decoded_messages, otel_tracing_messages, not_tracing_messages,
          resource_spans, traces, posts, response, raised, call, result,
          previous, other, execution_environment_cache, invocation_cache,
          context, tpc, root_spans>>

handler_vars == <<event, pc, i, j, unzipped_records, undecodable_messages,
                  decoded_messages, otel_tracing_messages,
                  not_tracing_messages, resource_spans, traces, posts,
                  response, raised>>

helper_vars == <<call, result>>

runs_vars == <<previous, other>>

thumbnail_vars == <<execution_environment_cache, invocation_cache, context,
                    tpc, root_spans>>

-----------------------------------------------------------------------------
(* Python values *)

JStr(s) == [t |-> "str", v |-> s]
JInt(n) == [t |-> "int", v |-> n]
JBool(b) == [t |-> "bool", v |-> b]
JFloat(r) == [t |-> "float", v |-> r]
JNull == [t |-> "null", v |-> "None"]
JList(items) == [t |-> "list", v |-> items]
JDict(pairs) == [t |-> "dict", v |-> pairs]
JBig(n) == [t |-> "bigint", v |-> n]

Ok(x) == [ok |-> TRUE, val |-> x]
Raise(e) == [ok |-> FALSE, exc |-> e]

\* the element of a set of one element: {e(x) : x \in {v}} is e of v, with v
\* evaluated once
The(S) == CHOOSE r \in S : TRUE

\* the first exception among the results, or Ok(FALSE) when none raised
FirstRaised(rs) ==
    LET bad == {n \in DOMAIN rs : ~rs[n].ok}
    IN  IF bad = {} THEN Ok(FALSE) ELSE rs[CHOOSE n \in bad : \A l \in bad : n <= l]

Range(s) == {s[n] : n \in DOMAIN s}

\* the keys of a dict, in insertion order
Keys(d) == [n \in DOMAIN d.v |-> d.v[n][1]]

\* key in d
Has(d, k) == d.t = "dict" /\ \E n \in DOMAIN d.v : d.v[n][1] = k

\* d[key] for a key that is present
Get(d, k) == d.v[CHOOSE n \in DOMAIN d.v : d.v[n][1] = k][2]

\* d[key] = value: replaces the value in place, or appends the new key
Set(d, k, x) ==
    IF Has(d, k)
    THEN JDict([n \in DOMAIN d.v |-> IF d.v[n][1] = k THEN <<k, x>> ELSE d.v[n]])
    ELSE JDict(Append(d.v, <<k, x>>))

\* x[key] does not raise: x is a dict that has the key
CanGet(x, k) == x.t = "dict" /\ Has(x, k)

\* str(x) as an f-string formats a scalar
PyStr(x) ==
    CASE x.t = "str" -> x.v
      [] x.t = "int" -> ToString(x.v)
      [] x.t = "bool" -> IF x.v THEN "True" ELSE "False"
      [] x.t = "float" -> x.v
      [] x.t = "null" -> "None"

\* isinstance(x, cls): bool is a subclass of int
isinstance(x, cls) ==
    CASE cls = "bool" -> x.t = "bool"
      [] cls = "int" -> x.t \in {"int", "bool", "bigint"}
      [] cls = "float" -> x.t = "float"
      [] cls = "str" -> x.t = "str"

-----------------------------------------------------------------------------
(* _parse_attributes *)

\* the entry appended for one (k, v) item, the isinstance tests in the
\* order a slip would put them: int before bool
type_identifier_int_first(x) ==
    IF isinstance(x, "int") THEN "intValue"
    ELSE IF isinstance(x, "bool") THEN "boolValue"
    ELSE IF isinstance(x, "float") THEN "doubleValue"
    ELSE "stringValue"

type_identifier(x) ==
    IF isinstance(x, "bool") THEN "boolValue"
    ELSE IF isinstance(x, "int") THEN "intValue"
    ELSE IF isinstance(x, "float") THEN "doubleValue"
    ELSE "stringValue"

\* response.append({"key": k, "value": {type_identifier: v}}) for each item
parse_attributes(input_kv_pair) ==
    IF input_kv_pair.t # "dict"
    THEN Raise("AttributeError")
    ELSE Ok(JList([n \in DOMAIN input_kv_pair.v |->
            JDict(<< <<"key", JStr(input_kv_pair.v[n][1])>>,
                    <<"value", JDict(<< <<type_identifier(input_kv_pair.v[n][2]),
                                         input_kv_pair.v[n][2]>> >>)>> >>)]))


-----------------------------------------------------------------------------
(* dateutil.parser.isoparse, for the extended format                       *)
(* YYYY-MM-DD<sep>hh:mm:ss[.f...][Z | +hh:mm | -hh:mm]                     *)

Char(s, n) == SubSeq(s, n, n)

Digits == {"0", "1", "2", "3", "4", "5", "6", "7", "8", "9"}

Digit(c) ==
    CASE c = "0" -> 0 [] c = "1" -> 1 [] c = "2" -> 2 [] c = "3" -> 3
      [] c = "4" -> 4 [] c = "5" -> 5 [] c = "6" -> 6 [] c = "7" -> 7
      [] c = "8" -> 8 [] c = "9" -> 9

IsDigits(s) == Len(s) > 0 /\ \A n \in 1..Len(s) : Char(s, n) \in Digits

RECURSIVE Num(_)
Num(s) == IF Len(s) = 0 THEN 0
          ELSE 10 * Num(SubSeq(s, 1, Len(s) - 1)) + Digit(Char(s, Len(s)))

RECURSIVE Pow(_, _)
Pow(b, n) == IF n = 0 THEN 1 ELSE b * Pow(b, n - 1)

\* the number of leading digits of s
RECURSIVE DigitRun(_)
DigitRun(s) == IF Len(s) > 0 /\ Char(s, 1) \in Digits
               THEN 1 + DigitRun(SubSeq(s, 2, Len(s)))
               ELSE 0

is_leap(y) == y % 4 = 0 /\ (y % 100 # 0 \/ y % 400 = 0)

days_in_month(y, m) ==
    IF m = 2 THEN (IF is_leap(y) THEN 29 ELSE 28)
    ELSE IF m \in {4, 6, 9, 11} THEN 30 ELSE 31

\* us_str = frac.group(1)[:6]; int(us_str) * 10**(6 - len(us_str))
fraction_to_microsecond(frac) ==
    LET us_str == SubSeq(frac, 1, IF Len(frac) < 6 THEN Len(frac) ELSE 6)
    IN  Num(us_str) * Pow(10, 6 - Len(us_str))

\* the tz suffix: "" is naive, "Z" is UTC, else (+|-)hh:mm
parse_tzstr(tzstr) ==
    IF tzstr = "" THEN Ok([aware |-> FALSE, utcoffset |-> 0])
    ELSE IF tzstr \in {"Z", "z"} THEN Ok([aware |-> TRUE, utcoffset |-> 0])
    ELSE IF /\ Len(tzstr) = 6
            /\ Char(tzstr, 1) \in {"+", "-"}
            /\ IsDigits(SubSeq(tzstr, 2, 3))
            /\ Char(tzstr, 4) = ":"
            /\ IsDigits(SubSeq(tzstr, 5, 6))
            /\ Num(SubSeq(tzstr, 2, 3)) <= 23
            /\ Num(SubSeq(tzstr, 5, 6)) <= 59
    THEN Ok([aware |-> TRUE,
             utcoffset |-> (IF Char(tzstr, 1) = "-" THEN -1 ELSE 1)
                           * (Num(SubSeq(tzstr, 2, 3)) * 3600
                              + Num(SubSeq(tzstr, 5, 6)) * 60)])
    ELSE Raise("ValueError")

isoparse(x) ==
    IF x.t # "str" THEN Raise("TypeError")
    ELSE LET s == x.v IN
    IF ~ /\ Len(s) >= 19
         /\ IsDigits(SubSeq(s, 1, 4)) /\ Char(s, 5) = "-"
         /\ IsDigits(SubSeq(s, 6, 7)) /\ Char(s, 8) = "-"
         /\ IsDigits(SubSeq(s, 9, 10))
         /\ IsDigits(SubSeq(s, 12, 13)) /\ Char(s, 14) = ":"
         /\ IsDigits(SubSeq(s, 15, 16)) /\ Char(s, 17) = ":"
         /\ IsDigits(SubSeq(s, 18, 19))
    THEN Raise("ValueError")
    ELSE LET year == Num(SubSeq(s, 1, 4))
             month == Num(SubSeq(s, 6, 7))
             day == Num(SubSeq(s, 9, 10))
             hour == Num(SubSeq(s, 12, 13))
             minute == Num(SubSeq(s, 15, 16))
             second == Num(SubSeq(s, 18, 19))
             rest == SubSeq(s, 20, Len(s))
             hasfrac == Len(rest) > 0 /\ Char(rest, 1) \in {".", ","}
             nfrac == IF hasfrac THEN DigitRun(SubSeq(rest, 2, Len(rest))) ELSE 0
             tzstr == IF hasfrac THEN SubSeq(rest, 2 + nfrac, Len(rest)) ELSE rest
             tz == parse_tzstr(tzstr)
         IN  IF \/ year < 1 \/ month < 1 \/ month > 12
                \/ day < 1 \/ day > days_in_month(year, month)
                \/ hour > 23 \/ minute > 59 \/ second > 59
                \/ (hasfrac /\ nfrac = 0)
                \/ ~tz.ok
             THEN Raise("ValueError")
             ELSE Ok([year |-> year, month |-> month, day |-> day,
                      hour |-> hour, minute |-> minute, second |-> second,
                      microsecond |-> IF hasfrac
                          THEN fraction_to_microsecond(SubSeq(rest, 2, 1 + nfrac))
                          ELSE 0,
                      aware |-> tz.val.aware,
                      utcoffset |-> tz.val.utcoffset])

-----------------------------------------------------------------------------
(* datetime.timestamp() of an aware datetime:                              *)
(* (self - _EPOCH).total_seconds(), _EPOCH = 1970-01-01T00:00:00+00:00     *)

days_before_year(y) ==
    (y - 1) * 365 + (y - 1) \div 4 - (y - 1) \div 100 + (y - 1) \div 400

RECURSIVE days_before_month(_, _)
days_before_month(y, m) ==
    IF m = 1 THEN 0 ELSE days_before_month(y, m - 1) + days_in_month(y, m - 1)

toordinal(d) == days_before_year(d.year) + days_before_month(d.year, d.month) + d.day

EpochOrdinal == toordinal([year |-> 1970, month |-> 1, day |-> 1])

\* the whole seconds of self - _EPOCH, after base + otoff - myoff
epoch_seconds(d) ==
    (toordinal(d) - EpochOrdinal) * 86400
    + d.hour * 3600 + d.minute * 60 + d.second - d.utcoffset

\* self - _EPOCH as an exact count of microseconds, sign and magnitude:
\* (+/-)(sec * 10^6 + us), 0 <= us < 10^6
timedelta_since_epoch(d) ==
    LET S == epoch_seconds(d)
        us == d.microsecond
    IN  IF S >= 0 THEN [neg |-> FALSE, sec |-> S, us |-> us]
        ELSE IF us = 0 THEN [neg |-> TRUE, sec |-> -S, us |-> 0]
        ELSE [neg |-> TRUE, sec |-> -S - 1, us |-> 1000000 - us]

-----------------------------------------------------------------------------
(* Natural numbers of any size: the sequence of their limbs in base 2^20,  *)
(* least significant first, no zero limb at the top; <<>> is 0.            *)

Base == 1024 * 1024

BNorm(N) ==
    LET nz == {k \in DOMAIN N : N[k] # 0}
    IN  IF nz = {} THEN <<>>
        ELSE SubSeq(N, 1, CHOOSE k \in nz : \A l \in nz : l <= k)

\* a number below 2^31 as limbs
BFromInt(n) == BNorm(<<n % Base, n \div Base>>)

\* the carry into limb k of N * c, c <= 1024
RECURSIVE MulCarry(_, _, _)
MulCarry(N, c, k) ==
    IF k = 1 THEN 0 ELSE (N[k - 1] * c + MulCarry(N, c, k - 1)) \div Base

BMulSmall(N, c) ==
    BNorm([k \in 1..(Len(N) + 1) |->
        IF k <= Len(N) THEN (N[k] * c + MulCarry(N, c, k)) % Base
        ELSE MulCarry(N, c, k)])

\* the remainder of the limbs k.. of N divided by d, d <= 1024
RECURSIVE DivRem(_, _, _)
DivRem(N, d, k) ==
    IF k > Len(N) THEN 0 ELSE (DivRem(N, d, k + 1) * Base + N[k]) % d

BDivSmall(N, d) ==
    [q |-> BNorm([k \in 1..Len(N) |-> (DivRem(N, d, k + 1) * Base + N[k]) \div d]),
     r |-> DivRem(N, d, 1)]

Limb(N, k) == IF k <= Len(N) THEN N[k] ELSE 0

RECURSIVE AddCarry(_, _, _)
AddCarry(M, N, k) ==
    IF k = 1 THEN 0
    ELSE (Limb(M, k - 1) + Limb(N, k - 1) + AddCarry(M, N, k - 1)) \div Base

BAdd(M, N) ==
    LET n == (IF Len(M) > Len(N) THEN Len(M) ELSE Len(N)) + 1
    IN  BNorm([k \in 1..n |-> (Limb(M, k) + Limb(N, k) + AddCarry(M, N, k)) % Base])

\* the number of bits of N
BitLength(N) ==
    IF Len(N) = 0 THEN 0
    ELSE 20 * (Len(N) - 1)
         + (CHOOSE L \in 1..20 : Pow(2, L - 1) <= N[Len(N)] /\ N[Len(N)] < Pow(2, L))

\* N * 2^s
RECURSIVE Shl(_, _)
Shl(N, s) == IF s <= 10 THEN BMulSmall(N, Pow(2, s))
             ELSE Shl(BMulSmall(N, 1024), s - 10)

\* N \div 2^s, and whether a set bit was shifted out
RECURSIVE Shr(_, _)
Shr(N, s) ==
    IF s <= 10
    THEN LET qr == BDivSmall(N, Pow(2, s)) IN [q |-> qr.q, lost |-> qr.r # 0]
    ELSE LET qr == BDivSmall(N, 1024)
             rest == Shr(qr.q, s - 10)
         IN  [q |-> rest.q, lost |-> rest.lost \/ qr.r # 0]

\* the value of a number below 2^31
BToInt(N) == Limb(N, 1) + Limb(N, 2) * Base

-----------------------------------------------------------------------------
(* IEEE-754 binary64 arithmetic, as CPython's float does it.  A float is   *)
(* [neg, m, e]: m is the significand, 2^52 <= m < 2^53, and the value is   *)
(* (+/-) m * 2^e; m = <<>> is zero.                                        *)

MantissaBits == 53

\* the same rounded to nearest, ties to even
round_half_even(neg, N, e, sticky) ==
    LET L == BitLength(N)
    IN  IF L = 0 THEN [neg |-> FALSE, m |-> <<>>, e |-> 0]
        ELSE IF L <= MantissaBits
        THEN [neg |-> neg, m |-> Shl(N, MantissaBits - L), e |-> e - (MantissaBits - L)]
        ELSE LET sh == L - MantissaBits
                 low == Shr(N, sh - 1)
                 rnd == Limb(low.q, 1) % 2
                 m == Shr(low.q, 1).q
                 tail == low.lost \/ sticky
                 up == BAdd(m, <<1>>)
             IN  IF rnd = 1 /\ (tail \/ Limb(m, 1) % 2 = 1)
                 THEN IF BitLength(up) > MantissaBits
                      THEN [neg |-> neg, m |-> Shr(up, 1).q, e |-> e + sh + 1]
                      ELSE [neg |-> neg, m |-> up, e |-> e + sh]
                 ELSE [neg |-> neg, m |-> m, e |-> e + sh]

\* int / int true division, correctly rounded: (sec * 10^6 + us) / 10^6
float_of_quotient(neg, sec, us) ==
    LET U == BAdd(BMulSmall(BMulSmall(BFromInt(sec), 1000), 1000), BFromInt(us))
        t == 75 - BitLength(U)
        q1 == BDivSmall(Shl(U, t), 1000)
        q2 == BDivSmall(q1.q, 1000)
    IN  IF Len(U) = 0 THEN [neg |-> FALSE, m |-> <<>>, e |-> 0]
        ELSE round_half_even(neg, q2.q, -t, q1.r # 0 \/ q2.r # 0)

\* float * int, the int exactly representable: the exact product, rounded
float_mul(f, c) == round_half_even(f.neg, BMulSmall(f.m, c), f.e, FALSE)

\* int(f): the float truncated toward zero, as (+/-)(hi * 10^9 + lo)
float_to_int(f) ==
    LET mag == IF f.e >= 0 THEN Shl(f.m, f.e) ELSE Shr(f.m, -f.e).q
        d1 == BDivSmall(mag, 1000)
        d2 == BDivSmall(d1.q, 1000)
        d3 == BDivSmall(d2.q, 1000)
    IN  [neg |-> f.neg /\ Len(mag) > 0,
         hi |-> BToInt(d3.q),
         lo |-> d3.r * 1000000 + d2.r * 1000 + d1.r]

-----------------------------------------------------------------------------
(* _datetime_to_nano *)

\* date.timestamp(): the timedelta since the epoch, as a float of seconds
timestamp(date) ==
    LET td == timedelta_since_epoch(date)
    IN  float_of_quotient(td.neg, td.sec, td.us)

\* int(date.timestamp() * 1000 * 1000 * 1000): three float products, left
\* to right, each rounded
datetime_to_nano(datetime_isostr) ==
    The({IF date.ok
         THEN Ok(JBig(float_to_int(
                float_mul(float_mul(float_mul(timestamp(date.val), 1000), 1000), 1000))))
         ELSE date : date \in {isoparse(datetime_isostr)}})

-----------------------------------------------------------------------------
(* _convert_cw_log_to_otel *)

SUPPORTED_SPAN_KEYS ==
    <<"trace_id", "span_id", "traceState", "parentSpanId", "name", "kind",
      "startTimeUnixNano", "endTimeUnixNano", "attributes",
      "droppedAttributesCount", "events", "droppedEventsCount", "links",
      "droppedLinksCount", "status">>

SUPPORTED_SPAN_EVENT_KEYS ==
    <<"name", "timeUnixNano", "attributes", "droppedAttributesCount">>

SUPPORTED_SPAN_LINK_KEYS ==
    <<"trace_id", "span_id", "traceState", "attributes", "droppedAttributesCount">>

\* x[key], or the exception it raises
GetItem(x, k) ==
    IF CanGet(x, k) THEN Ok(Get(x, k))
    ELSE IF x.t = "dict" THEN Raise("KeyError") ELSE Raise("TypeError")

\* x[k1][k2]
GetItem2(x, k1, k2) ==
    IF CanGet(x, k1) THEN GetItem(Get(x, k1), k2) ELSE GetItem(x, k1)

\* every key of the dict is copied, the supported ones and the others
known_fields_unfiltered(d, supported) == d

\* for key in supported: if key in d: copy[key] = d[key]
known_fields(d, supported) ==
    LET present == SelectSeq(supported, LAMBDA k : Has(d, k))
    IN  JDict([n \in DOMAIN present |-> <<present[n], Get(d, present[n])>>])

\* f'SPAN_KIND_{kind}': the "SpanKind." prefix is left in
span_kind_unsliced(kind) ==
    IF kind.t = "str" THEN Ok(JStr("SPAN_KIND_" \o kind.v)) ELSE Raise("TypeError")

\* f'SPAN_KIND_{kind[9:]}'
span_kind(kind) ==
    IF kind.t = "str"
    THEN Ok(JStr("SPAN_KIND_" \o SubSeq(kind.v, 10, Len(kind.v))))
    ELSE Raise("TypeError")

\* {"code": f'STATUS_CODE_{status["status_code"]}'}
span_status(status) ==
    IF CanGet(status, "status_code")
    THEN Ok(JDict(<< <<"code", JStr("STATUS_CODE_" \o PyStr(Get(status, "status_code")))>> >>))
    ELSE Raise("KeyError")

\* the elements a for loop over x visits, or the exception iter(x) raises;
\* a str yields its characters and a dict its keys, both strs
Iterate(x) ==
    CASE x.t = "list" -> Ok(x.v)
      [] x.t = "dict" -> Ok([n \in DOMAIN x.v |-> JStr(x.v[n][1])])
      [] x.t = "str" -> Ok([n \in 1..Len(x.v) |-> JStr(SubSeq(x.v, n, n))])
      [] OTHER -> Raise("TypeError")

\* d[k] = x for each <<k, x>> of kvs, in order
RECURSIVE SetAll(_, _)
SetAll(d, kvs) ==
    IF kvs = <<>> THEN d
    ELSE SetAll(Set(d, Head(kvs)[1], Head(kvs)[2]), Tail(kvs))

\* _parse_attributes(d[k]), or the exception of d[k]
parse_attributes_of(d, k) ==
    The({IF x.ok THEN parse_attributes(x.val) ELSE x : x \in {GetItem(d, k)}})

\* _datetime_to_nano(d[k]), or the exception of d[k]
datetime_to_nano_of(d, k) ==
    The({IF x.ok THEN datetime_to_nano(x.val) ELSE x : x \in {GetItem(d, k)}})

\* the body of the loop over span["events"], for one event
convert_span_event(span_event) ==
    The({IF FirstRaised(st).ok
         THEN Ok(known_fields(SetAll(span_event,
                                     << <<"attributes", st[1].val>>,
                                        <<"timeUnixNano", st[2].val>> >>),
                              SUPPORTED_SPAN_EVENT_KEYS))
         ELSE FirstRaised(st) :
         st \in {<<parse_attributes_of(span_event, "attributes"),
                   datetime_to_nano_of(span_event, "timestamp")>>}})

\* the body of the loop over span["links"], for one link
convert_span_link(span_link) ==
    The({IF FirstRaised(st).ok
         THEN Ok(known_fields(SetAll(span_link,
                                     << <<"attributes", st[1].val>>,
                                        <<"trace_id", st[2].val>>,
                                        <<"span_id", st[3].val>> >>),
                              SUPPORTED_SPAN_LINK_KEYS))
         ELSE FirstRaised(st) :
         st \in {<<parse_attributes_of(span_link, "attributes"),
                   GetItem2(span_link, "context", "trace_id"),
                   GetItem2(span_link, "context", "span_id")>>}})

\* the list a loop builds from the results of its passes, or the first
\* exception raised
collect(out) ==
    IF FirstRaised(out).ok
    THEN Ok(JList([n \in DOMAIN out |-> out[n].val]))
    ELSE FirstRaised(out)

\* the loop over span["events"]
convert_span_events(span_events) ==
    The({IF items.ok
         THEN The({collect(out) :
                   out \in {[n \in DOMAIN items.val |->
                                convert_span_event(items.val[n])]}})
         ELSE items : items \in {Iterate(span_events)}})

\* the loop over span["links"]
convert_span_links(span_links) ==
    The({IF items.ok
         THEN The({collect(out) :
                   out \in {[n \in DOMAIN items.val |->
                                convert_span_link(items.val[n])]}})
         ELSE items : items \in {Iterate(span_links)}})

\* f'SPAN_KIND_{span["kind"][9:]}', or the exception of span["kind"]
span_kind_of(d) ==
    The({IF x.ok THEN span_kind(x.val) ELSE x : x \in {GetItem(d, "kind")}})

\* {"code": f'STATUS_CODE_{span["status"]["status_code"]}'}, or the exception
span_status_of(d) ==
    The({IF x.ok THEN span_status(x.val) ELSE x : x \in {GetItem(d, "status")}})

\* the converted span["events"], or the exception
convert_span_events_of(d) ==
    The({IF x.ok THEN convert_span_events(x.val) ELSE x : x \in {GetItem(d, "events")}})

\* the converted span["links"], or the exception
convert_span_links_of(d) ==
    The({IF x.ok THEN convert_span_links(x.val) ELSE x : x \in {GetItem(d, "links")}})

\* returns Ok(<<resource, span_copy_known_fields>>) or the exception raised;
\* the statements run in the order of st
convert_cw_log_to_otel(log_event) ==
    The({IF FirstRaised(st).ok
         THEN Ok(<<JDict(<< <<"attributes", st[1].val>> >>),
                   known_fields(SetAll(log_event,
                                       << <<"trace_id", st[2].val>>,
                                          <<"span_id", st[3].val>>,
                                          <<"kind", st[4].val>>,
                                          <<"parentSpanId", st[5].val>>,
                                          <<"startTimeUnixNano", st[6].val>>,
                                          <<"endTimeUnixNano", st[7].val>>,
                                          <<"status", st[8].val>>,
                                          <<"attributes", st[9].val>>,
                                          <<"events", st[10].val>>,
                                          <<"links", st[11].val>> >>),
                                SUPPORTED_SPAN_KEYS)>>)
         ELSE FirstRaised(st) :
         st \in {<<parse_attributes_of(log_event, "resource"),
                   GetItem2(log_event, "context", "trace_id"),
                   GetItem2(log_event, "context", "span_id"),
                   span_kind_of(log_event),
                   GetItem(log_event, "parent_id"),
                   datetime_to_nano_of(log_event, "start_time"),
                   datetime_to_nano_of(log_event, "end_time"),
                   span_status_of(log_event),
                   parse_attributes_of(log_event, "attributes"),
                   convert_span_events_of(log_event),
                   convert_span_links_of(log_event)>>}})

-----------------------------------------------------------------------------
(* Inputs: the spans an instrumented function logs (Span.to_json), and     *)
(* the ways a log line departs from that shape.                            *)

MaxAttrs == 2

AttrKeys == <<"key_1", "key_2", "key_3">>

AttrValues ==
    <<JBool(TRUE), JBool(FALSE), JInt(15), JInt(1), JInt(0), JFloat("1.5"),
      JStr("my_string"), JNull>>

\* the flat mappings of at most MaxAttrs keys, each as its sequence of items
AttrMappings ==
    UNION {{JDict([n \in 1..len |-> <<AttrKeys[ks[n]], AttrValues[xs[n]]>>]) :
              ks \in {f \in [1..len -> DOMAIN AttrKeys] :
                        \A a, b \in 1..len : a # b => f[a] # f[b]},
              xs \in [1..len -> DOMAIN AttrValues]} :
           len \in 0..MaxAttrs}

TsDates == <<"1969-12-31", "1970-01-01", "2001-09-09", "2022-06-05">>
TsTimes == <<"00:00:00", "01:46:40", "18:11:50", "23:59:59">>
TsFractions == <<"", ".5", ".000001", ".887123", ".999999">>
TsZones == <<"Z", "+00:00", "+02:00", "-05:30">>

Timestamps ==
    {TsDates[d] \o "T" \o TsTimes[c] \o TsFractions[f] \o TsZones[z] :
        d \in DOMAIN TsDates, c \in DOMAIN TsTimes,
        f \in DOMAIN TsFractions, z \in DOMAIN TsZones}

Kinds ==
    <<JStr("SpanKind.INTERNAL"), JStr("SpanKind.CLIENT"), JStr("SpanKind.SERVER"),
      JStr("INTERNAL"), JInt(1)>>

Statuses ==
    <<JDict(<< <<"status_code", JStr("UNSET")>> >>),
      JDict(<< <<"status_code", JStr("OK")>>, <<"description", JNull>> >>),
      JDict(<< <<"status_code", JStr("ERROR")>>,
               <<"description", JStr("KeyError: 'Records'")>>,
               <<"code", JInt(2)>> >>),
      JDict(<< <<"description", JStr("no status code")>> >>),
      JStr("OK")>>

Resources ==
    <<JDict(<< <<"telemetry.sdk.language", JStr("python")>>,
               <<"service.name", JStr("svc-a")>> >>),
      JDict(<< <<"telemetry.sdk.language", JStr("python")>>,
               <<"telemetry.sdk.version", JStr("1.11.1")>>,
               <<"service.name", JStr("svc-a")>> >>),
      JDict(<< <<"telemetry.sdk.language", JStr("python")>> >>)>>

EventLists ==
    <<JList(<<>>),
      JList(<<JDict(<< <<"name", JStr("exception")>>,
                       <<"timestamp", JStr("2022-06-05T18:11:50.887123Z")>>,
                       <<"attributes", JDict(<< <<"exception.escaped", JBool(FALSE)>> >>)>>,
                       <<"severity", JInt(3)>> >>)>>),
      JList(<<JDict(<< <<"name", JStr("exception")>>,
                       <<"attributes", JDict(<<>>)>> >>)>>)>>

LinkLists ==
    <<JList(<<>>),
      JList(<<JDict(<< <<"context", JDict(<< <<"trace_id", JStr("0x5ce0e9a56015fec5aadfa328ae398115")>>,
                                             <<"span_id", JStr("0xab54a98ceb1f0ad2")>>,
                                             <<"trace_state", JStr("[]")>> >>)>>,
                       <<"attributes", JDict(<< <<"linked", JInt(1)>> >>)>> >>)>>),
      JList(<<JDict(<< <<"attributes", JDict(<<>>)>> >>)>>)>>

\* fields Span.to_json does not write, a later SDK might
ExtraFields ==
    << <<>>,
       << <<"schema_url", JStr("")>>, <<"traceState", JStr("k=v")>>,
          <<"droppedEventsCount", JInt(0)>> >> >>

RequiredFields ==
    <<"context", "kind", "parent_id", "start_time", "end_time", "status",
      "attributes", "events", "links", "resource">>

\* the dict without the key
Without(d, k) == JDict(SelectSeq(d.v, LAMBDA kv : kv[1] # k))

\* a logged span: miss = 0, or the index of a required field left out
RawSpan(kind, status, resource, events, links, extra, miss) ==
    LET full == JDict(
            << <<"name", JStr("create_thumbnails_from_s3_events")>>,
               <<"context", JDict(<< <<"trace_id", JStr("0x5ce0e9a56015fec5aadfa328ae398115")>>,
                                     <<"span_id", JStr("0xf9c0a1fcb1a2e1ea")>>,
                                     <<"trace_state", JStr("[]")>> >>)>>,
               <<"kind", Kinds[kind]>>,
               <<"parent_id", JNull>>,
               <<"start_time", JStr("2022-06-05T18:11:50.887123Z")>>,
               <<"end_time", JStr("2022-06-05T20:11:51.5+02:00")>>,
               <<"status", Statuses[status]>>,
               <<"attributes", JDict(<< <<"faas.coldstart", JBool(TRUE)>>,
                                        <<"faas.memory_limit_in_mb", JInt(2048)>>,
                                        <<"app.ratio", JFloat("0.25")>>,
                                        <<"faas.name", JStr("ThumbnailFunction")>> >>)>>,
               <<"events", EventLists[events]>>,
               <<"links", LinkLists[links]>>,
               <<"resource", Resources[resource]>> >> \o ExtraFields[extra])
    IN  IF miss = 0 THEN full ELSE Without(full, RequiredFields[miss])

MissChoices == {0, 1, 4, 10}

-----------------------------------------------------------------------------
(* The helpers called on their own: one call per behaviour *)

Pending == Raise("pending")
NoCall == [fn |-> "none", arg |-> JNull]

HandlerIdle ==
    /\ event = <<>>
    /\ pc = "idle"
    /\ i = 0
    /\ j = 0
    /\ unzipped_records = <<>>
    /\ undecodable_messages = <<>>
    /\ decoded_messages = <<>>
    /\ otel_tracing_messages = <<>>
    /\ not_tracing_messages = <<>>
    /\ resource_spans = <<>>
    /\ traces = <<>>
    /\ posts = <<>>
    /\ response = 0
    /\ raised = ""

\* no invocation before this one has built a request
NoRun == [event |-> <<>>, traces |-> JNull]

\* the handler's frame: its argument and its local variables
Frame ==
    [event |-> event, pc |-> pc, i |-> i, j |-> j,
     unzipped_records |-> unzipped_records,
     undecodable_messages |-> undecodable_messages,
     decoded_messages |-> decoded_messages,
     otel_tracing_messages |-> otel_tracing_messages,
     not_tracing_messages |-> not_tracing_messages,
     resource_spans |-> resource_spans, traces |-> traces, posts |-> posts,
     response |-> response, raised |-> raised, previous |-> previous]

\* the frame at the entry of event_handler(records, _context)
Entry(records, before) ==
    [event |-> records, pc |-> "unzip", i |-> 1, j |-> 1,
     unzipped_records |-> <<>>, undecodable_messages |-> <<>>,
     decoded_messages |-> <<>>, otel_tracing_messages |-> <<>>,
     not_tracing_messages |-> <<>>, resource_spans |-> JDict(<<>>),
     traces |-> JNull, posts |-> <<>>, response |-> 0, raised |-> "",
     previous |-> before]

\* no second execution environment
NoEnvironment == [Entry(<<>>, NoRun) EXCEPT !.pc = "idle"]

OneEnvironment == previous = NoRun /\ other = NoEnvironment

\* number is the count of the invocations the execution environment has
\* been given, this one included
NoContext == [aws_request_id |-> "", number |-> 0]

\* a new execution environment of the thumbnail function: lambda_cache is
\* imported, no invocation yet
ThumbnailIdle ==
    /\ execution_environment_cache = JDict(<<>>)
    /\ invocation_cache = JDict(<<>>)
    /\ context = NoContext
    /\ tpc = "idle"
    /\ root_spans = <<>>

HelperInit ==
    /\ HandlerIdle
    /\ OneEnvironment
    /\ ThumbnailIdle
    /\ result = Pending
    /\ \/ \E m \in AttrMappings : call = [fn |-> "_parse_attributes", arg |-> m]
       \/ \E ts \in Timestamps : call = [fn |-> "_datetime_to_nano", arg |-> JStr(ts)]
       \/ \E kind \in DOMAIN Kinds, status \in DOMAIN Statuses,
             events \in DOMAIN EventLists, links \in DOMAIN LinkLists,
             extra \in DOMAIN ExtraFields, miss \in MissChoices :
            call = [fn |-> "_convert_cw_log_to_otel",
                    arg |-> RawSpan(kind, status, 1, events, links, extra, miss)]

CallPending(fn) == call.fn = fn /\ ~result.ok /\ result.exc = "pending"

CallParseAttributes ==
    /\ CallPending("_parse_attributes")
    /\ result' = parse_attributes(call.arg)
    /\ UNCHANGED <<call, handler_vars, runs_vars, thumbnail_vars>>

CallDatetimeToNano ==
    /\ CallPending("_datetime_to_nano")
    /\ result' = datetime_to_nano(call.arg)
    /\ UNCHANGED <<call, handler_vars, runs_vars, thumbnail_vars>>

CallConvert ==
    /\ CallPending("_convert_cw_log_to_otel")
    /\ result' = convert_cw_log_to_otel(call.arg)
    /\ UNCHANGED <<call, handler_vars, runs_vars, thumbnail_vars>>

HelperNext == CallParseAttributes \/ CallDatetimeToNano \/ CallConvert

HelperSpec == HelperInit /\ [][HelperNext]_vars

-----------------------------------------------------------------------------
(* Properties of the helpers, checked under HelperSpec *)

Returned(fn) == call.fn = fn /\ (result.ok \/ result.exc # "pending")

Accepted == Returned("_convert_cw_log_to_otel") /\ result.ok

\* the keys of a returned dict, as a set
KeySet(d) == {d.v[n][1] : n \in DOMAIN d.v}

SourceOnlySpanKeys ==
    {"context", "parent_id", "start_time", "end_time", "resource", "timestamp",
     "schema_url"}

\* C6: the span _convert_cw_log_to_otel returns has only keys of
\* SUPPORTED_SPAN_KEYS, each of its events only keys of
\* SUPPORTED_SPAN_EVENT_KEYS and each of its links only keys of
\* SUPPORTED_SPAN_LINK_KEYS; the source-only and the unknown fields of the
\* input are in none of them.
WhitelistProjection ==
    Accepted =>
        LET span == result.val[2]
            events == Get(span, "events").v
            links == Get(span, "links").v
        IN  /\ KeySet(span) \subseteq Range(SUPPORTED_SPAN_KEYS)
            /\ KeySet(span) \cap SourceOnlySpanKeys = {}
            /\ \A n \in DOMAIN events :
                /\ KeySet(events[n]) \subseteq Range(SUPPORTED_SPAN_EVENT_KEYS)
                /\ KeySet(events[n]) \cap {"timestamp", "severity"} = {}
            /\ \A n \in DOMAIN links :
                /\ KeySet(links[n]) \subseteq Range(SUPPORTED_SPAN_LINK_KEYS)
                /\ KeySet(links[n]) \cap {"context"} = {}

\* a record with an unknown top-level field, an event with an unknown field
\* and a link was accepted
WhitelistProjectionWitness ==
    /\ Accepted
    /\ Has(call.arg, "schema_url")
    /\ Len(Get(result.val[2], "events").v) = 1
    /\ Has(Get(call.arg, "events").v[1], "severity")
    /\ Len(Get(result.val[2], "links").v) = 1

\* the tag of a value, by its type; a boolean is not tagged as an integer
TagOf(x) ==
    CASE x.t = "bool" -> "boolValue"
      [] x.t = "int" -> "intValue"
      [] x.t = "float" -> "doubleValue"
      [] OTHER -> "stringValue"

\* C7: _parse_attributes returns one {key, value: {tag: v}} entry per key of
\* the mapping, in insertion order, tag being boolValue for a boolean, else
\* intValue for an integer, else doubleValue for a float, else stringValue; a
\* boolean is never tagged intValue.
CoercerTagsInOrder ==
    Returned("_parse_attributes") =>
        /\ result.ok
        /\ result.val.t = "list"
        /\ Len(result.val.v) = Len(call.arg.v)
        /\ \A n \in DOMAIN call.arg.v :
            LET k == call.arg.v[n][1]
                x == call.arg.v[n][2]
                entry == result.val.v[n]
            IN  /\ entry = JDict(<< <<"key", JStr(k)>>,
                                    <<"value", JDict(<< <<TagOf(x), x>> >>)>> >>)
                /\ x.t = "bool" => ~Has(Get(entry, "value"), "intValue")

\* a mapping of a boolean then an integer was converted
CoercerTagsWitness ==
    /\ Returned("_parse_attributes")
    /\ Len(call.arg.v) = 2
    /\ call.arg.v[1] = <<"key_2", JBool(TRUE)>>
    /\ call.arg.v[2] = <<"key_1", JInt(1)>>
    /\ Len(result.val.v) = 2

\* floor(epoch_seconds(t) * 10^9) of a parsed timestamp, as an exact integer:
\* the microseconds since the epoch, in UTC, times 1000
exact_epoch_nano(date) ==
    LET td == timedelta_since_epoch(date)
    IN  [neg |-> td.neg /\ (td.sec # 0 \/ td.us # 0),
         hi |-> td.sec, lo |-> td.us * 1000]

\* C8: _datetime_to_nano(t) = floor(epoch_seconds(t) * 1_000_000_000) as an
\* exact integer, for every ISO-8601 timestamp t.
NanoIsExact ==
    (Returned("_datetime_to_nano") /\ result.ok) =>
        result.val = JBig(exact_epoch_nano(isoparse(call.arg).val))

KindNames ==
    << <<"SpanKind.INTERNAL", "SPAN_KIND_INTERNAL">>,
       <<"SpanKind.CLIENT", "SPAN_KIND_CLIENT">>,
       <<"SpanKind.SERVER", "SPAN_KIND_SERVER">> >>

StatusCodeNames ==
    << <<"UNSET", "STATUS_CODE_UNSET">>, <<"OK", "STATUS_CODE_OK">>,
       <<"ERROR", "STATUS_CODE_ERROR">> >>

\* C9: an accepted record of kind "SpanKind.<NAME>" and status_code C comes
\* out with kind "SPAN_KIND_<NAME>" and status exactly {code: "STATUS_CODE_<C>"}.
EnumRewriting ==
    Accepted =>
        /\ \A n \in DOMAIN KindNames :
            Get(call.arg, "kind") = JStr(KindNames[n][1])
                => Get(result.val[2], "kind") = JStr(KindNames[n][2])
        /\ \A n \in DOMAIN StatusCodeNames :
            Get(Get(call.arg, "status"), "status_code") = JStr(StatusCodeNames[n][1])
                => Get(result.val[2], "status")
                     = JDict(<< <<"code", JStr(StatusCodeNames[n][2])>> >>)

\* a CLIENT span whose status carries more than its status_code was accepted
EnumRewritingWitness ==
    /\ Accepted
    /\ Get(call.arg, "kind") = JStr("SpanKind.CLIENT")
    /\ Get(call.arg, "status") = Statuses[3]
    /\ Get(result.val[2], "kind") = JStr("SPAN_KIND_CLIENT")

-----------------------------------------------------------------------------
(* The Kinesis event.  Encoded data is [enc, of]: the encoding and what    *)
(* decoding it gives; enc = "none" is data that is not in the encoding the *)
(* decoder expects.  A str that json.loads is called on carries, as        *)
(* `loads`, what json.loads returns for it.                                *)

Base64(bytes) == [enc |-> "base64", of |-> bytes]
Gzip(bytes) == [enc |-> "gzip", of |-> bytes]
Utf8(text) == [enc |-> "utf-8", of |-> text]
Corrupt == [enc |-> "none", of |-> JNull]

JText(label, loads) == [t |-> "str", v |-> label, loads |-> loads]

\* base64.b64decode(rec)
b64decode(rec) ==
    IF rec.enc = "base64" THEN Ok(rec.of) ELSE Raise("binascii.Error")

\* zlib.decompress(data, 16 + zlib.MAX_WBITS)
decompress(data) ==
    IF data.enc = "gzip" THEN Ok(data.of) ELSE Raise("zlib.error")

\* bytes.decode("utf-8")
decode(bytes) ==
    IF bytes.enc = "utf-8" THEN Ok(bytes.of) ELSE Raise("UnicodeDecodeError")

\* json.loads(x)
json_loads(x) ==
    IF x.t # "str" THEN Raise("TypeError")
    ELSE IF "loads" \in DOMAIN x THEN x.loads
    ELSE Raise("JSONDecodeError")

\* the lines a function logs: what the Lambda runtime writes, the spans the
\* ConsoleSpanExporter writes, and JSON that is not a span of that shape
LogLines ==
    <<JText("START RequestId: c9a31149-3076-4b71-a289-36ccea8c81e2 Version: $LATEST",
            Raise("JSONDecodeError")),
      JText("{span INTERNAL of svc-a}", Ok(RawSpan(1, 1, 1, 1, 1, 1, 0))),
      JText("{span CLIENT of svc-a, sdk 1.11.1}", Ok(RawSpan(2, 3, 2, 2, 2, 2, 0))),
      JText("{span SERVER, no service.name}", Ok(RawSpan(3, 2, 3, 1, 1, 1, 0))),
      JText("{span without context}", Ok(RawSpan(1, 1, 1, 1, 1, 1, 1))),
      JText("{span of kind INTERNAL}", Ok(RawSpan(4, 1, 1, 1, 1, 1, 0)))>>

LogEvent(line) ==
    JDict(<< <<"id", JStr("36895528348509238467599255984368681116550744030445502464")>>,
             <<"timestamp", JInt(1654452710)>>,
             <<"message", LogLines[line]>> >>)

\* the CloudWatch Logs payload that carries the lines
Document(lines) ==
    JDict(<< <<"messageType", JStr("DATA_MESSAGE")>>,
             <<"logGroup", JStr("/aws/lambda/ThumbnailFunction")>>,
             <<"logEvents", JList([n \in DOMAIN lines |-> LogEvent(lines[n])])>> >>)

RecordKinds ==
    {"doc", "notjson", "nokey", "array", "badbase64", "badgzip", "badutf8"}

\* rec["kinesis"]["data"] of one record
Data(kind, lines) ==
    CASE kind = "doc" ->
            Base64(Gzip(Utf8(JText("{logEvents}", Ok(Document(lines))))))
      [] kind = "notjson" ->
            Base64(Gzip(Utf8(JText("not json", Raise("JSONDecodeError")))))
      [] kind = "nokey" ->
            Base64(Gzip(Utf8(JText("{no logEvents}",
                Ok(JDict(<< <<"messageType", JStr("DATA_MESSAGE")>> >>))))))
      [] kind = "array" ->
            Base64(Gzip(Utf8(JText("[]", Ok(JList(<<>>))))))
      [] kind = "badbase64" -> Corrupt
      [] kind = "badgzip" -> Base64(Corrupt)
      [] kind = "badutf8" -> Base64(Gzip(Corrupt))

MaxRecords == 2
MaxLines == 2

Shapes == UNION {[1..n -> RecordKinds] : n \in 0..MaxRecords}

LineSeqs == UNION {[1..n -> DOMAIN LogLines] : n \in 0..MaxLines}

\* the ways to deal the lines to the records of a shape: cut[n] is the number
\* of lines in the records 1..n, and only a "doc" record takes lines
Cuts(shape, lines) ==
    {cut \in [0..Len(shape) -> 0..Len(lines)] :
        /\ cut[0] = 0
        /\ cut[Len(shape)] = Len(lines)
        /\ \A n \in 1..Len(shape) :
            /\ cut[n - 1] <= cut[n]
            /\ shape[n] # "doc" => cut[n - 1] = cut[n]}

Records(shape, lines, cut) ==
    [n \in 1..Len(shape) |->
        Data(shape[n], SubSeq(lines, cut[n - 1] + 1, cut[n]))]

StatusCodes == {101, 200, 204, 299, 304, 399, 400, 404, 499, 500, 599}

-----------------------------------------------------------------------------
(* event_handler *)

\* zlib.decompress(base64.b64decode(rec), 16 + zlib.MAX_WBITS).decode("utf-8")
unzip(rec) ==
    The({IF data.ok
         THEN The({IF bytes.ok THEN decode(bytes.val) ELSE bytes :
                   bytes \in {decompress(data.val)}})
         ELSE data : data \in {b64decode(rec)}})

\* dict.get(key, default)
dict_get(d, k, default) == IF Has(d, k) THEN Get(d, k) ELSE default

\* the service name looked up in the attribute list of the resource
service_name_of_attributes(resource) ==
    LET attributes == Get(resource, "attributes").v
        named == {n \in DOMAIN attributes :
                    Get(attributes[n], "key") = JStr("service.name")}
    IN  IF named = {} THEN JStr("unknown")
        ELSE Get(Get(attributes[CHOOSE n \in named : TRUE], "value"), "stringValue")

\* resource.get("service.name", "unknown")
service_name_of(resource) == dict_get(resource, "service.name", JStr("unknown"))

\* the spans of a group
SpansOf(group) == Get(Get(group, "scopeSpans").v[1], "spans").v

NewGroup(resource) ==
    JDict(<< <<"resource", resource>>,
             <<"scopeSpans", JList(<<JDict(<< <<"spans", JList(<<>>)>> >>)>>)>> >>)

\* group["scopeSpans"][0]["spans"].insert(0, span)
PrependSpan(group, span) ==
    Set(group, "scopeSpans",
        JList(<<JDict(<< <<"spans", JList(<<span>> \o SpansOf(group))>> >>)>>))

\* group["scopeSpans"][0]["spans"].append(span)
AppendSpan(group, span) ==
    Set(group, "scopeSpans",
        JList(<<JDict(<< <<"spans", JList(Append(SpansOf(group), span))>> >>)>>))

\* the body of the loop with the resource of the group assigned on every pass
add_span_last_wins(groups, resource, span) ==
    The({Set(groups, service_name,
             AppendSpan(IF Has(groups, service_name)
                        THEN Set(Get(groups, service_name), "resource", resource)
                        ELSE NewGroup(resource), span)) :
         service_name \in {service_name_of(resource).v}})

\* the body of the loop over otel_tracing_messages
add_span(groups, resource, span) ==
    The({The({Set(g, service_name, AppendSpan(Get(g, service_name), span)) :
              g \in {IF Has(groups, service_name) THEN groups
                     ELSE Set(groups, service_name, NewGroup(resource))}}) :
         service_name \in {service_name_of(resource).v}})

\* list(d.values())
Values(d) == JList([n \in DOMAIN d.v |-> d.v[n][2]])

SpanKindEnum ==
    {"SPAN_KIND_UNSPECIFIED", "SPAN_KIND_INTERNAL", "SPAN_KIND_SERVER",
     "SPAN_KIND_CLIENT", "SPAN_KIND_PRODUCER", "SPAN_KIND_CONSUMER"}

StatusCodeEnum == {"STATUS_CODE_UNSET", "STATUS_CODE_OK", "STATUS_CODE_ERROR"}

\* ParseDict(traces, ExportTraceServiceRequest()): json_format raises
\* ParseError for an enum field whose value is not a name of the enum
ParseDict(request) ==
    IF \A g \in DOMAIN Get(request, "resourceSpans").v :
          \A n \in DOMAIN SpansOf(Get(request, "resourceSpans").v[g]) :
             LET span == SpansOf(Get(request, "resourceSpans").v[g])[n]
             IN  /\ Get(span, "kind").v \in SpanKindEnum
                 /\ Get(Get(span, "status"), "code").v \in StatusCodeEnum
    THEN Ok(request)
    ELSE Raise("ParseError")

\* response.raise_for_status(): requests raises HTTPError for 4xx and 5xx
raise_for_status(status_code) ==
    IF \/ 400 <= status_code /\ status_code < 500
       \/ 500 <= status_code /\ status_code < 600
    THEN Raise("HTTPError")
    ELSE Ok(JNull)

Init ==
    /\ \E shape \in Shapes, lines \in LineSeqs :
         \E cut \in Cuts(shape, lines) : event = Records(shape, lines, cut)
    /\ pc = "unzip"
    /\ i = 1
    /\ j = 1
    /\ unzipped_records = <<>>
    /\ undecodable_messages = <<>>
    /\ decoded_messages = <<>>
    /\ otel_tracing_messages = <<>>
    /\ not_tracing_messages = <<>>
    /\ resource_spans = JDict(<<>>)
    /\ traces = JNull
    /\ posts = <<>>
    /\ response = 0
    /\ raised = ""
    /\ call = NoCall
    /\ result = Pending
    /\ OneEnvironment
    /\ ThumbnailIdle

\* an exception leaves event_handler
Raised(exc) ==
    /\ pc' = "raised"
    /\ raised' = exc

\* lines 64-67, one record of the comprehension
Unzip ==
    /\ pc = "unzip"
    /\ i <= Len(event)
    /\ \E r \in {unzip(event[i])} :
         IF r.ok
         THEN /\ unzipped_records' = Append(unzipped_records, r.val)
              /\ i' = i + 1
              /\ UNCHANGED <<pc, raised>>
         ELSE /\ Raised(r.exc)
              /\ UNCHANGED <<unzipped_records, i>>
    /\ UNCHANGED <<event, j, undecodable_messages, decoded_messages,
                   otel_tracing_messages, not_tracing_messages, resource_spans,
                   traces, posts, response, helper_vars, runs_vars, thumbnail_vars>>

UnzipDone ==
    /\ pc = "unzip"
    /\ i > Len(event)
    /\ pc' = "decode"
    /\ i' = 1
    /\ UNCHANGED <<event, j, unzipped_records, undecodable_messages,
                   decoded_messages, otel_tracing_messages,
                   not_tracing_messages, resource_spans, traces, posts,
                   response, raised, helper_vars, runs_vars, thumbnail_vars>>

\* lines 90-94, one record
JsonDecode ==
    /\ pc = "decode"
    /\ i <= Len(unzipped_records)
    /\ \E r \in {json_loads(unzipped_records[i])} :
         IF r.ok
         THEN /\ decoded_messages' = Append(decoded_messages, r.val)
              /\ UNCHANGED undecodable_messages
         ELSE /\ undecodable_messages' =
                    Append(undecodable_messages, unzipped_records[i])
              /\ UNCHANGED decoded_messages
    /\ i' = i + 1
    /\ UNCHANGED <<event, pc, j, unzipped_records, otel_tracing_messages,
                   not_tracing_messages, resource_spans, traces, posts,
                   response, raised, helper_vars, runs_vars, thumbnail_vars>>

JsonDecodeDone ==
    /\ pc = "decode"
    /\ i > Len(unzipped_records)
    /\ pc' = "convert"
    /\ i' = 1
    /\ j' = 1
    /\ UNCHANGED <<event, unzipped_records, undecodable_messages,
                   decoded_messages, otel_tracing_messages,
                   not_tracing_messages, resource_spans, traces, posts,
                   response, raised, helper_vars, runs_vars, thumbnail_vars>>

\* the elements the loop of line 105 visits in decoded_messages[i], or the
\* exception of decoded_message["logEvents"] or of iterating over it
cloudwatch_log_events(decoded_message) ==
    The({IF x.ok THEN Iterate(x.val) ELSE x :
         x \in {GetItem(decoded_message, "logEvents")}})

\* lines 104-105 raise
LogEventsRaise ==
    /\ pc = "convert"
    /\ i <= Len(decoded_messages)
    /\ \E r \in {cloudwatch_log_events(decoded_messages[i])} :
         /\ ~r.ok
         /\ Raised(r.exc)
    /\ UNCHANGED <<event, i, j, unzipped_records, undecodable_messages,
                   decoded_messages, otel_tracing_messages,
                   not_tracing_messages, resource_spans, traces, posts,
                   response, helper_vars, runs_vars, thumbnail_vars>>

\* lines 106-120, one log event: Ok(the pair to append to
\* otel_tracing_messages), or the exception either try block catches
convert_log_event(log_event) ==
    The({IF text.ok
         THEN The({IF message.ok THEN convert_cw_log_to_otel(message.val)
                   ELSE message : message \in {json_loads(text.val)}})
         ELSE text : text \in {GetItem(log_event, "message")}})

ConvertLogEvent ==
    /\ pc = "convert"
    /\ i <= Len(decoded_messages)
    /\ \E evs \in {cloudwatch_log_events(decoded_messages[i])} :
         /\ evs.ok
         /\ j <= Len(evs.val)
         /\ \E r \in {convert_log_event(evs.val[j])} :
              IF r.ok
              THEN /\ otel_tracing_messages' = Append(otel_tracing_messages, r.val)
                   /\ UNCHANGED not_tracing_messages
              ELSE /\ not_tracing_messages' = Append(not_tracing_messages, evs.val[j])
                   /\ UNCHANGED otel_tracing_messages
    /\ j' = j + 1
    /\ UNCHANGED <<event, pc, i, unzipped_records, undecodable_messages,
                   decoded_messages, resource_spans, traces, posts, response,
                   raised, helper_vars, runs_vars, thumbnail_vars>>

\* the loop of line 105 ends: the next decoded message
NextDecodedMessage ==
    /\ pc = "convert"
    /\ i <= Len(decoded_messages)
    /\ \E evs \in {cloudwatch_log_events(decoded_messages[i])} :
         /\ evs.ok
         /\ j > Len(evs.val)
    /\ i' = i + 1
    /\ j' = 1
    /\ UNCHANGED <<event, pc, unzipped_records, undecodable_messages,
                   decoded_messages, otel_tracing_messages,
                   not_tracing_messages, resource_spans, traces, posts,
                   response, raised, helper_vars, runs_vars, thumbnail_vars>>

ConvertDone ==
    /\ pc = "convert"
    /\ i > Len(decoded_messages)
    /\ pc' = "group"
    /\ i' = 1
    /\ UNCHANGED <<event, j, unzipped_records, undecodable_messages,
                   decoded_messages, otel_tracing_messages,
                   not_tracing_messages, resource_spans, traces, posts,
                   response, raised, helper_vars, runs_vars, thumbnail_vars>>

\* lines 129-138 with the request of lines 144-151 inside the loop
GroupAndExport ==
    /\ pc = "group"
    /\ i <= Len(otel_tracing_messages)
    /\ \E r \in {add_span(resource_spans, otel_tracing_messages[i][1],
                           otel_tracing_messages[i][2])} :
         /\ resource_spans' = r
         /\ posts' = Append(posts, JDict(<< <<"resourceSpans", Values(r)>> >>))
    /\ i' = i + 1
    /\ UNCHANGED <<event, pc, j, unzipped_records, undecodable_messages,
                   decoded_messages, otel_tracing_messages,
                   not_tracing_messages, traces, response, raised,
                   helper_vars, runs_vars, thumbnail_vars>>

\* lines 129-138, one (resource, span) pair
Group ==
    /\ pc = "group"
    /\ i <= Len(otel_tracing_messages)
    /\ resource_spans' = add_span(resource_spans, otel_tracing_messages[i][1],
                                  otel_tracing_messages[i][2])
    /\ i' = i + 1
    /\ UNCHANGED <<event, pc, j, unzipped_records, undecodable_messages,
                   decoded_messages, otel_tracing_messages,
                   not_tracing_messages, traces, posts, response, raised,
                   helper_vars, runs_vars, thumbnail_vars>>

\* line 142
GroupDone ==
    /\ pc = "group"
    /\ i > Len(otel_tracing_messages)
    /\ traces' = JDict(<< <<"resourceSpans", Values(resource_spans)>> >>)
    /\ pc' = "encode"
    /\ UNCHANGED <<event, i, j, unzipped_records, undecodable_messages,
                   decoded_messages, otel_tracing_messages,
                   not_tracing_messages, resource_spans, posts, response,
                   raised, helper_vars, runs_vars, thumbnail_vars>>

\* line 143
Encode ==
    /\ pc = "encode"
    /\ \E r \in {ParseDict(traces)} :
         IF r.ok THEN pc' = "post" /\ UNCHANGED raised
         ELSE Raised(r.exc)
    /\ UNCHANGED <<event, i, j, unzipped_records, undecodable_messages,
                   decoded_messages, otel_tracing_messages,
                   not_tracing_messages, resource_spans, traces, posts,
                   response, helper_vars, runs_vars, thumbnail_vars>>

\* lines 144-151: the request is sent and a response comes back
Post ==
    /\ pc = "post"
    /\ posts' = Append(posts, traces)
    /\ \E status_code \in StatusCodes : response' = status_code
    /\ pc' = "check"
    /\ UNCHANGED <<event, i, j, unzipped_records, undecodable_messages,
                   decoded_messages, otel_tracing_messages,
                   not_tracing_messages, resource_spans, traces, raised,
                   helper_vars, runs_vars, thumbnail_vars>>

\* lines 144-151: the request is sent and no response comes back
PostFails ==
    /\ pc = "post"
    /\ posts' = Append(posts, traces)
    /\ Raised("ConnectionError")
    /\ UNCHANGED <<event, i, j, unzipped_records, undecodable_messages,
                   decoded_messages, otel_tracing_messages,
                   not_tracing_messages, resource_spans, traces, response,
                   helper_vars, runs_vars, thumbnail_vars>>

\* line 153
RaiseForStatus ==
    /\ pc = "check"
    /\ \E r \in {raise_for_status(response)} :
         IF r.ok THEN pc' = "done" /\ UNCHANGED raised
         ELSE Raised(r.exc)
    /\ UNCHANGED <<event, i, j, unzipped_records, undecodable_messages,
                   decoded_messages, otel_tracing_messages,
                   not_tracing_messages, resource_spans, traces, posts,
                   response, helper_vars, runs_vars, thumbnail_vars>>

Running == pc \in {"unzip", "decode", "convert", "group", "encode", "post", "check"}

\* the Lambda host ends an invocation that runs past the function's timeout
Timeout ==
    /\ Running
    /\ pc' = "timeout"
    /\ UNCHANGED <<event, i, j, unzipped_records, undecodable_messages,
                   decoded_messages, otel_tracing_messages,
                   not_tracing_messages, resource_spans, traces, posts,
                   response, raised, helper_vars, runs_vars, thumbnail_vars>>

Next ==
    \/ Unzip \/ UnzipDone
    \/ JsonDecode \/ JsonDecodeDone
    \/ LogEventsRaise \/ ConvertLogEvent \/ NextDecodedMessage \/ ConvertDone
    \/ Group \/ GroupDone
    \/ Encode
    \/ Post \/ PostFails
    \/ RaiseForStatus
    \/ Timeout

Spec == Init /\ [][Next]_vars

-----------------------------------------------------------------------------
(* Properties of event_handler *)

Aggregated == pc \in {"encode", "post", "check", "done"}

\* the log events of an unzipped record, or the exception that keeps the
\* handler from them
log_events_of(text) ==
    The({IF x.ok THEN cloudwatch_log_events(x.val) ELSE x : x \in {json_loads(text)}})

\* the positions <<record, line>> of the log lines of the event
LinesOf(records) ==
    {p \in (DOMAIN records) \X (1..MaxLines + 1) :
        \E text \in {unzip(records[p[1]])} :
            /\ text.ok
            /\ \E evs \in {log_events_of(text.val)} :
                 evs.ok /\ p[2] \in DOMAIN evs.val}

LineAt(records, p) ==
    log_events_of(unzip(records[p[1]]).val).val[p[2]]

\* a line the encoder accepts once it is converted
WellFormed(log_event) ==
    \E r \in {convert_log_event(log_event)} :
        /\ r.ok
        /\ Get(r.val[2], "kind").v \in SpanKindEnum
        /\ Get(Get(r.val[2], "status"), "code").v \in StatusCodeEnum

\* the spans of the request, as <<group, position>>
SpanPositions(request) ==
    {p \in (DOMAIN Get(request, "resourceSpans").v) \X (1..MaxLines + 1) :
        p[2] \in DOMAIN SpansOf(Get(request, "resourceSpans").v[p[1]])}

\* C1: after the aggregation step every transformed span is in the group
\* keyed by the service.name attribute of its own resource ("unknown" when
\* the resource has none), and a group holds exactly the spans of its name.
GroupedByServiceName ==
    Aggregated =>
        /\ \A n \in DOMAIN otel_tracing_messages :
             \E name \in {service_name_of_attributes(otel_tracing_messages[n][1]).v} :
                /\ Has(resource_spans, name)
                /\ \E m \in DOMAIN SpansOf(Get(resource_spans, name)) :
                      SpansOf(Get(resource_spans, name))[m] = otel_tracing_messages[n][2]
        /\ \A name \in Range(Keys(resource_spans)) :
             Len(SpansOf(Get(resource_spans, name))) =
                Cardinality({n \in DOMAIN otel_tracing_messages :
                    service_name_of_attributes(otel_tracing_messages[n][1]).v = name})

\* C2: event_handler returns normally only for a response status in
\* 200..299; for every other status it raises instead of returning.
NonSuccessRaises ==
    /\ pc = "done" => response \in 200..299
    /\ (pc = "raised" /\ raised = "HTTPError") => response \notin 200..299

\* C3: when every record of the event unpacks, a line that is not JSON or
\* not a well-formed span is counted once as non-tracing, every well-formed
\* line yields one span, and the run is not aborted before the export.
LineFailureIsolated ==
    (\A n \in DOMAIN event :
        \E text \in {unzip(event[n])} :
            /\ text.ok
            /\ json_loads(text.val).ok =>
                  cloudwatch_log_events(json_loads(text.val).val).ok)
    =>  /\ pc = "raised" => raised \in {"ConnectionError", "HTTPError"}
        /\ pc \in {"group", "encode", "post", "check", "done"} =>
              /\ Len(otel_tracing_messages) + Len(not_tracing_messages) =
                    Cardinality(LinesOf(event))
              /\ Len(otel_tracing_messages) =
                    Cardinality({p \in LinesOf(event) : WellFormed(LineAt(event, p))})

\* C4: the decompression step does not raise; a record that fails base64,
\* gzip or UTF-8 decoding is left out and every other record is decompressed.
DecompressionIsolated ==
    /\ pc = "raised" =>
          raised \notin {"binascii.Error", "zlib.error", "UnicodeDecodeError"}
    /\ pc \in {"decode", "convert", "group", "encode", "post", "check", "done"} =>
          Len(unzipped_records) = Cardinality({n \in DOMAIN event : unzip(event[n]).ok})

\* C5: unpacking never raises; a blob that is not JSON, or is JSON without a
\* logEvents list, contributes no log lines and its siblings are processed.
UnpackingNeverRaises ==
    /\ pc = "raised" => raised \notin {"JSONDecodeError", "KeyError", "TypeError"}
    /\ pc \in {"group", "encode", "post", "check", "done"} =>
          Len(otel_tracing_messages) + Len(not_tracing_messages) =
             Cardinality(LinesOf(event))

\* C10: at most one POST per run; none before decompression, unpacking,
\* transformation and aggregation of the whole input have finished; the POST
\* carries all the groups of the run; a run that reached the response has
\* sent exactly one, whatever the number of spans.
SingleAtomicExport ==
    /\ Len(posts) <= 1
    /\ pc \in {"unzip", "decode", "convert", "group", "encode", "post"} => posts = <<>>
    /\ (pc = "raised" /\ raised \notin {"ConnectionError", "HTTPError"}) => posts = <<>>
    /\ pc \in {"check", "done"} => Len(posts) = 1
    /\ posts # <<>> =>
          /\ Len(unzipped_records) = Len(event)
          /\ Len(decoded_messages) + Len(undecodable_messages) = Len(event)
          /\ Len(otel_tracing_messages) + Len(not_tracing_messages) =
                Cardinality(LinesOf(event))
          /\ posts[1] = JDict(<< <<"resourceSpans", Values(resource_spans)>> >>)
          /\ Cardinality(SpanPositions(posts[1])) = Len(otel_tracing_messages)

SingleAtomicExportWitness ==
    /\ pc = "done"
    /\ Len(posts) = 1
    /\ Len(otel_tracing_messages) = 2
    /\ undecodable_messages # <<>>
    /\ Cardinality(SpanPositions(posts[1])) = 2

\* the line at position p is met before the line at position q: record
\* order, then logEvents order within a record
Before(p, q) == p[1] < q[1] \/ (p[1] = q[1] /\ p[2] < q[2])

\* the positions of the lines that convert to a span
ConvertedLines(records) ==
    {p \in LinesOf(records) : convert_log_event(LineAt(records, p)).ok}

\* the (resource, span) pairs of the lines that convert, in the order the
\* lines are met
SourceMessages(records) ==
    The({[k \in 1..Cardinality(P) |->
            convert_log_event(LineAt(records,
                CHOOSE p \in P : Cardinality({q \in P : Before(q, p)}) = k - 1)).val] :
         P \in {ConvertedLines(records)}})

\* the spans of the pairs whose resource resolves to the name, in order
SpansNamed(messages, name) ==
    The({[k \in DOMAIN sel |-> sel[k][2]] :
         sel \in {SelectSeq(messages, LAMBDA m : service_name_of(m[1]).v = name)}})

\* C11: when the aggregation loop has ended, the span list of every group
\* is, in the order the source lines are met (record order, then logEvents
\* order), the spans of the lines that landed in the group: nothing
\* reordered, nothing twice.
OrderPreserved ==
    pc = "encode" =>
        \E src \in {SourceMessages(event)} :
            \A n \in DOMAIN resource_spans.v :
                SpansOf(resource_spans.v[n][2]) =
                    SpansNamed(src, resource_spans.v[n][1])

OrderPreservedWitness ==
    /\ Aggregated
    /\ LinesOf(event) = {<<1, 1>>, <<2, 1>>}
    /\ \E n \in DOMAIN resource_spans.v :
         \E spans \in {SpansOf(resource_spans.v[n][2])} :
            /\ Len(spans) = 2
            /\ spans[1] # spans[2]
            /\ spans[1] = convert_log_event(LineAt(event, <<1, 1>>)).val[2]

\* the resource of the first pair whose resource resolves to the name
FirstResource(messages, name) ==
    messages[CHOOSE n \in DOMAIN messages :
                /\ service_name_of(messages[n][1]).v = name
                /\ \A l \in 1..(n - 1) : service_name_of(messages[l][1]).v # name][1]

-----------------------------------------------------------------------------
(* Several invocations of event_handler: one after the other in an         *)
(* execution environment, and in two execution environments at once.       *)

\* the event batches of the invocations
RunEvents ==
    << <<Data("doc", <<2>>)>>,
       <<Data("doc", <<3>>)>>,
       <<Data("nokey", <<>>)>> >>

\* the handler runs in the frame
Enter(frame) ==
    /\ event' = frame.event
    /\ pc' = frame.pc
    /\ i' = frame.i
    /\ j' = frame.j
    /\ unzipped_records' = frame.unzipped_records
    /\ undecodable_messages' = frame.undecodable_messages
    /\ decoded_messages' = frame.decoded_messages
    /\ otel_tracing_messages' = frame.otel_tracing_messages
    /\ not_tracing_messages' = frame.not_tracing_messages
    /\ resource_spans' = frame.resource_spans
    /\ traces' = frame.traces
    /\ posts' = frame.posts
    /\ response' = frame.response
    /\ raised' = frame.raised
    /\ previous' = frame.previous

\* the handler is in the frame
InFrame(frame) ==
    /\ event = frame.event
    /\ pc = frame.pc
    /\ i = frame.i
    /\ j = frame.j
    /\ unzipped_records = frame.unzipped_records
    /\ undecodable_messages = frame.undecodable_messages
    /\ decoded_messages = frame.decoded_messages
    /\ otel_tracing_messages = frame.otel_tracing_messages
    /\ not_tracing_messages = frame.not_tracing_messages
    /\ resource_spans = frame.resource_spans
    /\ traces = frame.traces
    /\ posts = frame.posts
    /\ response = frame.response
    /\ raised = frame.raised
    /\ previous = frame.previous

RunsInit ==
    /\ \E a \in DOMAIN RunEvents, b \in DOMAIN RunEvents :
         /\ InFrame(Entry(RunEvents[a], NoRun))
         /\ other = Entry(RunEvents[b], NoRun)
    /\ call = NoCall
    /\ result = Pending
    /\ ThumbnailIdle

Ended == pc \in {"done", "raised", "timeout"}

\* the event and the request of the last invocation that built a request
LastBuilt ==
    IF traces.t = "dict" THEN [event |-> event, traces |-> traces] ELSE previous

\* the next invocation, with resource_spans a dict that outlives the call
NextInvocationKeepingGroups ==
    /\ Ended
    /\ \E n \in DOMAIN RunEvents :
         Enter([Entry(RunEvents[n], LastBuilt) EXCEPT !.resource_spans = resource_spans])
    /\ UNCHANGED <<other, helper_vars, thumbnail_vars>>

\* the execution environment takes the next batch: event_handler is called
\* again and its local variables are created anew
NextInvocation ==
    /\ Ended
    /\ \E n \in DOMAIN RunEvents :
         Enter(Entry(RunEvents[n], LastBuilt))
    /\ UNCHANGED <<other, helper_vars, thumbnail_vars>>

\* the other execution environment takes its turn
Switch ==
    /\ other.pc # "idle"
    /\ Enter(other)
    /\ other' = Frame
    /\ UNCHANGED <<helper_vars, thumbnail_vars>>

RunsNext == Next \/ NextInvocation \/ Switch

RunsSpec == RunsInit /\ [][RunsNext]_vars

\* the spans of a request, as a set
RequestSpans(request) ==
    {SpansOf(Get(request, "resourceSpans").v[p[1]])[p[2]] : p \in SpanPositions(request)}

\* the request of the frame holds the spans of the lines of its own event,
\* each once, and nothing else
OwnSpansOnly(frame) ==
    frame.traces.t = "dict" =>
        \E src \in {SourceMessages(frame.event)} :
            /\ Cardinality(SpanPositions(frame.traces)) = Len(src)
            /\ RequestSpans(frame.traces) = {src[k][2] : k \in DOMAIN src}

\* two invocations of the same event that built a request built the same one
SameRequest(a, b) ==
    (a.traces.t = "dict" /\ b.traces.t = "dict" /\ a.event = b.event) =>
        a.traces = b.traces

\* C13: whatever ran before in the execution environment and whatever runs
\* in another one, an invocation starts with empty lists and an empty group
\* map, the request it has just built holds the spans of its own event only,
\* and invocations of the same event build the same request.
RunIndependence ==
    /\ (pc = "unzip" /\ i = 1) =>
          /\ decoded_messages = <<>> /\ undecodable_messages = <<>>
          /\ otel_tracing_messages = <<>> /\ not_tracing_messages = <<>>
          /\ resource_spans = JDict(<<>>)
    /\ pc = "encode" => OwnSpansOnly(Frame)
    /\ \A a \in {Frame, other, previous, other.previous} :
          \A b \in {Frame, other, previous, other.previous} : SameRequest(a, b)

RunIndependenceWitness ==
    /\ pc = "done"
    /\ traces.t = "dict"
    /\ Cardinality(SpanPositions(traces)) = 1
    /\ previous.event # event
    /\ previous.traces.t = "dict"
    /\ other.event = event
    /\ other.traces = traces
    /\ other.previous.traces.t = "dict"

-----------------------------------------------------------------------------
(* The thumbnail function: lambda_cache and the root span of OtelHelper,   *)
(* over the invocations of one execution environment.                      *)

MaxInvocations == 3

\* context.aws_request_id of the invocations
RequestIds == {"C9A31149-3076", "c9a31149-3076", "4f6e02d7-55aa"}

\* str.lower()
lower(s) == IF s = "C9A31149-3076" THEN "c9a31149-3076" ELSE s

\* dict.get(key) with the default None
get_cache_entry(cache, key) == dict_get(cache, key, JNull)

\* not x, for the values a cache entry takes
falsy(x) == x.t = "null" \/ (x.t = "list" /\ x.v = <<>>)

\* _execution_environment_cache["invocation_ids"].append(...) on a list that
\* is created anew in every invocation
initialize_invocation_new_list(cache, ctx) ==
    Set(cache, "invocation_ids", JList(<<JStr(lower(ctx.aws_request_id))>>))

\* lines 12-19 of initialize_invocation: the new _execution_environment_cache
initialize_invocation(cache, ctx) ==
    The({Set(c, "invocation_ids",
             JList(Append(Get(c, "invocation_ids").v,
                          JStr(lower(ctx.aws_request_id))))) :
         c \in {IF falsy(get_cache_entry(cache, "invocation_ids"))
                THEN Set(cache, "invocation_ids", JList(<<>>))
                ELSE cache}})

\* default_attributes | user_attributes
merged_attributes(cache, ctx, user_attributes) ==
    SetAll(JDict(<< <<"faas.coldstart",
                      JBool(Len(get_cache_entry(cache, "invocation_ids").v) = 1)>>,
                    <<"faas.execution", JStr(lower(ctx.aws_request_id))>> >>),
           user_attributes.v)

\* the list under "invocation_ids", empty when there is none
invocation_ids ==
    IF Has(execution_environment_cache, "invocation_ids")
    THEN Get(execution_environment_cache, "invocation_ids").v
    ELSE <<>>

ThumbnailInit ==
    /\ ThumbnailIdle
    /\ HandlerIdle
    /\ OneEnvironment
    /\ call = NoCall
    /\ result = Pending

\* the execution environment is given an invocation, after one that
\* returned or one that failed
Invoke ==
    /\ tpc \in {"idle", "failed"}
    /\ context.number < MaxInvocations
    /\ \E id \in RequestIds :
         context' = [aws_request_id |-> id, number |-> context.number + 1]
    /\ tpc' = "initialize"
    /\ UNCHANGED <<execution_environment_cache, invocation_cache, root_spans,
                   handler_vars, helper_vars, runs_vars>>

\* lambda_cache.initialize_invocation(context)
InitializeInvocation ==
    /\ tpc = "initialize"
    /\ invocation_cache' = JDict(<<>>)
    /\ execution_environment_cache' =
          initialize_invocation(execution_environment_cache, context)
    /\ tpc' = "root_span"
    /\ UNCHANGED <<context, root_spans, handler_vars, helper_vars, runs_vars>>

\* lambda_helper.start_root_span(context, user_attributes), up to the yield
StartRootSpan ==
    /\ tpc = "root_span"
    /\ \E direct \in BOOLEAN :
         \E merged \in {merged_attributes(execution_environment_cache, context,
                JDict(<< <<"app.direct_export_to_honeycomb", JBool(direct)>> >>))} :
            /\ invocation_cache' = Set(invocation_cache, "otel_attributes", merged)
            /\ root_spans' = Append(root_spans, merged)
    /\ tpc' = "generate"
    /\ UNCHANGED <<execution_environment_cache, context, handler_vars,
                   helper_vars, runs_vars>>

\* ThumbnailGenerator.generate_thumbnails(event) returns
GenerateThumbnails ==
    /\ tpc = "generate"
    /\ tpc' = "idle"
    /\ UNCHANGED <<execution_environment_cache, invocation_cache, context,
                   root_spans, handler_vars, helper_vars, runs_vars>>

\* ThumbnailGenerator.generate_thumbnails(event) raises: a KeyError of the
\* event, an error of S3 or of the image library
GenerateThumbnailsRaises ==
    /\ tpc = "generate"
    /\ tpc' = "failed"
    /\ UNCHANGED <<execution_environment_cache, invocation_cache, context,
                   root_spans, handler_vars, helper_vars, runs_vars>>

ThumbnailNext ==
    \/ Invoke
    \/ InitializeInvocation
    \/ StartRootSpan
    \/ GenerateThumbnails
    \/ GenerateThumbnailsRaises

ThumbnailSpec == ThumbnailInit /\ [][ThumbnailNext]_vars

\* C14: initialize_invocation empties the invocation cache and appends one
\* request id to invocation_ids, which therefore has one entry per
\* invocation of the execution environment, and the root span of the first
\* invocation has faas.coldstart true, every later one false.
ColdStartTracking ==
    /\ Len(invocation_ids) =
          IF tpc = "initialize" THEN context.number - 1 ELSE context.number
    /\ tpc \in {"root_span", "generate"} =>
          invocation_ids[context.number] = JStr(lower(context.aws_request_id))
    /\ tpc = "root_span" => invocation_cache = JDict(<<>>)
    /\ Len(root_spans) =
          IF tpc \in {"initialize", "root_span"}
          THEN context.number - 1 ELSE context.number
    /\ \A n \in DOMAIN root_spans :
          Get(root_spans[n], "faas.coldstart") = JBool(n = 1)

ColdStartTrackingWitness ==
    /\ tpc = "generate"
    /\ Len(invocation_ids) = 3
    /\ invocation_ids[1] = invocation_ids[2]
    /\ Len(root_spans) = 3
    /\ Get(root_spans[1], "faas.coldstart") = JBool(TRUE)
    /\ Get(root_spans[3], "faas.coldstart") = JBool(FALSE)
=============================================================================
